---- MODULE Spec2Model ----
(***************************************************************************)
(* Model of orchid_commons.observability.http_errors: the exception-to-     *)
(* HTTP-response middleware for FastAPI and aiohttp.                        *)
(*                                                                          *)
(* Python values are represented as follows.                                *)
(*   None / absent      an optional is a sequence: <<>> is None, <<v>> is v *)
(*   dict[str, int]     a sequence of <<key, value>> pairs (insertion order)*)
(*   str | int          a tagged record, see StrVal / IntVal                *)
(*   bytes of JSON      a sequence of tokens, see Dumps / Loads             *)
(***************************************************************************)
EXTENDS Integers, Sequences, FiniteSets, TLC

VARIABLES
    handlers,             \* Sequence[ExceptionHandler] given at construction
    catch_all_message,    \* catch_all_message given at construction
    starlette_installed,  \* whether `from starlette.responses import JSONResponse` succeeds
    aiohttp_installed,    \* whether `from aiohttp import web` succeeds
    phase,                \* per request: "idle", "awaiting" (suspended in await), "done"
    adapter,              \* per request: "fastapi" or "aiohttp" middleware
    request,              \* per request: the request object handed to the middleware
    ambient,              \* per request: request_id of the ambient correlation context
    exc,                  \* per request: optional exception that escaped the downstream handler
    record,               \* per request: optional ErrorResponse returned by _dispatch_exception
    invoked,              \* per request: indexes of the handler pairs whose mapper was called
    logs,                 \* per request: log entries emitted by _log_error
    request_id,           \* per request: optional result of _resolve_request_id
    outcome               \* per request: what the middleware coroutine produced

vars == <<handlers, catch_all_message, starlette_installed, aiohttp_installed,
          phase, adapter, request, ambient, exc, record, invoked, logs,
          request_id, outcome>>

config == <<handlers, catch_all_message, starlette_installed, aiohttp_installed>>

----------------------------------------------------------------------------
(* Bounds of the model *)

NumRequests == 2
MaxHandlers == 2

Requests == 1..NumRequests

----------------------------------------------------------------------------
(* logging levels (logging.WARNING, logging.ERROR, logging.CRITICAL) *)

WARNING == 30
ERROR == 40
CRITICAL == 50

(* ErrorResponse / APIError default status code and the catch-all status *)
DefaultStatusCode == 400
InternalErrorStatus == 500
ServerErrorFloor == 500

DefaultCatchAllMessage == "An unexpected error occurred"

----------------------------------------------------------------------------
(* Optionals *)

None == <<>>
Some(v) == <<v>>
IsNone(o) == o = <<>>
Get(o) == o[1]

----------------------------------------------------------------------------
(* Exception classes and isinstance *)

\* Direct base class of each exception class that occurs in the model.
Parent(t) ==
    CASE t = "APIError"            -> "OrchidCommonsError"
      [] t = "WidgetNotFound"      -> "APIError"
      [] t = "OrchidCommonsError"  -> "Exception"
      [] t = "KeyError"            -> "LookupError"
      [] t = "LookupError"         -> "Exception"
      [] t = "ValueError"          -> "Exception"
      [] t = "RuntimeError"        -> "Exception"
      [] t = "LogSinkError"        -> "Exception"
      [] t = "MapperError"         -> "Exception"
      [] t = "Exception"           -> "BaseException"
      [] t = "CancelledError"      -> "BaseException"
      [] OTHER                     -> "object"

RECURSIVE IsSubclass(_, _)
IsSubclass(t, cls) ==
    IF t = cls THEN TRUE
    ELSE IF t = "object" THEN FALSE
    ELSE IsSubclass(Parent(t), cls)

\* isinstance(e, cls)
IsInstance(e, cls) == IsSubclass(e.type, cls)

----------------------------------------------------------------------------
(* Error taxonomy *)

\* dict[str, Any] literals used by the modelled callers
EmptyDict == <<>>
WidgetDetails == << <<"widget_id", 42>> >>
FieldDetails == << <<"field", 1>> >>

\* APIError.__init__(code, message, status_code=400, details=None);
\* `type` is APIError or a subclass that inherits the constructor.
APIErrorInit(type, code, message, status_code, details) ==
    [type        |-> type,
     args        |-> message,
     code        |-> code,
     message     |-> message,
     status_code |-> IF IsNone(status_code) THEN DefaultStatusCode ELSE Get(status_code),
     details     |-> IF IsNone(details) \/ Get(details) = EmptyDict
                     THEN EmptyDict ELSE Get(details)]

\* Any other exception class raised as cls(args) with a single str argument
PlainException(type, args) ==
    [type |-> type, args |-> args, code |-> "", message |-> "",
     status_code |-> 0, details |-> EmptyDict]

\* repr(x) of a str without quotes or characters that need escaping
PyRepr(x) == "'" \o x \o "'"

\* str(exc): BaseException.__str__ gives the single argument itself;
\* KeyError.__str__ (inherited by its subclasses) gives the repr of the key.
ExcStr(e) == IF IsInstance(e, "KeyError") THEN PyRepr(e.args) ELSE e.args

\* @dataclass ErrorResponse(code, message, status_code=400, details={}, log_level=WARNING)
ErrorResponse(code, message, status_code, details, log_level) ==
    [code        |-> code,
     message     |-> message,
     status_code |-> IF IsNone(status_code) THEN DefaultStatusCode ELSE Get(status_code),
     details     |-> IF IsNone(details) THEN EmptyDict ELSE Get(details),
     log_level   |-> IF IsNone(log_level) THEN WARNING ELSE Get(log_level)]

----------------------------------------------------------------------------
(* Caller-supplied mappers: Callable[[Exception], ErrorResponse].           *)
(* A call either returns an ErrorResponse or raises.                        *)

Returned(v) == [raised |-> FALSE, value |-> Some(v), error |-> ""]
Raised(t) == [raised |-> TRUE, value |-> None, error |-> t]

Mapper(name, e) ==
    CASE name = "not_found" ->
            \* lambda exc: ErrorResponse(code="NOT_FOUND", message=str(exc), status_code=404)
            Returned(ErrorResponse("NOT_FOUND", ExcStr(e), Some(404), None, None))
      [] name = "validation" ->
            \* status, details and log level all set by the mapper
            Returned(ErrorResponse("VALIDATION_ERROR", "Invalid input", Some(422),
                                   Some(FieldDetails), Some(ERROR)))
      [] name = "unavailable" ->
            \* a 5xx record whose log level is left at the dataclass default
            Returned(ErrorResponse("UPSTREAM_DOWN", "Upstream unavailable", Some(503),
                                   None, None))
      [] name = "bare" ->
            \* ErrorResponse(code=..., message=...) with every default
            Returned(ErrorResponse("BAD_REQUEST", "Bad request", None, None, None))
      [] name = "broken" ->
            \* a mapper with a bug: it raises instead of returning
            Raised("MapperError")

MapperNames == {"not_found", "validation", "unavailable", "bare", "broken"}

----------------------------------------------------------------------------
(* Dispatcher *)

\* Mutant: the catch-all record carries str(exc) as its message.
RECURSIVE ScanHandlersLeaky(_, _, _, _)
ScanHandlersLeaky(e, hs, msg, i) ==
    IF i > Len(hs)
    THEN [call |-> Returned(ErrorResponse("INTERNAL_ERROR", ExcStr(e),
                                          Some(InternalErrorStatus),
                                          Some(EmptyDict), Some(CRITICAL))),
          invoked |-> <<>>]
    ELSE IF IsInstance(e, hs[i][1])
         THEN [call |-> Mapper(hs[i][2], e), invoked |-> <<i>>]
         ELSE ScanHandlersLeaky(e, hs, msg, i + 1)

\* Mutant: the loop does not return at the first match, so the last match wins.
RECURSIVE ScanHandlersLast(_, _, _, _)
ScanHandlersLast(e, hs, msg, i) ==
    IF i > Len(hs)
    THEN [call |-> Returned(ErrorResponse("INTERNAL_ERROR", msg, Some(InternalErrorStatus),
                                          Some(EmptyDict), Some(CRITICAL))),
          invoked |-> <<>>]
    ELSE LET rest == ScanHandlersLast(e, hs, msg, i + 1) IN
         IF IsInstance(e, hs[i][1]) /\ rest.invoked = <<>>
         THEN [call |-> Mapper(hs[i][2], e), invoked |-> <<i>>]
         ELSE rest

\* Mutant: the dispatcher recomputes the log level of a mapper's record from
\* its status code, as it does for an APIError.
RECURSIVE ScanHandlersOverride(_, _, _, _)
ScanHandlersOverride(e, hs, msg, i) ==
    IF i > Len(hs)
    THEN [call |-> Returned(ErrorResponse("INTERNAL_ERROR", msg, Some(InternalErrorStatus),
                                          Some(EmptyDict), Some(CRITICAL))),
          invoked |-> <<>>]
    ELSE IF IsInstance(e, hs[i][1])
         THEN LET c == Mapper(hs[i][2], e) IN
              [call |-> IF c.raised THEN c
                        ELSE Returned([Get(c.value) EXCEPT !.log_level =
                                 IF Get(c.value).status_code < ServerErrorFloor
                                 THEN WARNING ELSE ERROR]),
               invoked |-> <<i>>]
         ELSE ScanHandlersOverride(e, hs, msg, i + 1)

\* for exc_type, handler in handlers: if isinstance(exc, exc_type): return handler(exc)
\* scanned from index i; the result carries the indexes whose mapper was called.
RECURSIVE ScanHandlers(_, _, _, _)
ScanHandlers(e, hs, msg, i) ==
    IF i > Len(hs)
    THEN [call |-> Returned(ErrorResponse("INTERNAL_ERROR", msg, Some(InternalErrorStatus),
                                          Some(EmptyDict), Some(CRITICAL))),
          invoked |-> <<>>]
    ELSE IF IsInstance(e, hs[i][1])
         THEN [call |-> Mapper(hs[i][2], e), invoked |-> <<i>>]
         ELSE ScanHandlers(e, hs, msg, i + 1)

\* Mutant: `type(exc) is APIError` instead of isinstance(exc, APIError).
dispatch_exception_exact(e, hs, msg) ==
    IF e.type = "APIError"
    THEN [call |-> Returned(ErrorResponse(e.code, e.message, Some(e.status_code),
                                          Some(e.details),
                                          Some(IF e.status_code < ServerErrorFloor
                                               THEN WARNING ELSE ERROR))),
          invoked |-> <<>>]
    ELSE ScanHandlers(e, hs, msg, 1)

\* _dispatch_exception(exc, handlers, catch_all_message)
dispatch_exception(e, hs, msg) ==
    IF IsInstance(e, "APIError")
    THEN [call |-> Returned(ErrorResponse(e.code, e.message, Some(e.status_code),
                                          Some(e.details),
                                          Some(IF e.status_code < ServerErrorFloor
                                               THEN WARNING ELSE ERROR))),
          invoked |-> <<>>]
    ELSE ScanHandlers(e, hs, msg, 1)

----------------------------------------------------------------------------
(* Severity logger *)

\* traceback.format_exception(type(exc), exc, exc.__traceback__): its last line
\* names the exception class and str(exc)
FormatException(e) == <<e.type, ExcStr(e)>>

\* _log_error(error_response, exc): the record handed to the logger.
\* `level` is the level of the logger method called (logger.error / logger.warning).
log_error(r, e) ==
    IF r.log_level = CRITICAL
    THEN [level |-> ERROR, text |-> "Unexpected error", exc_info |-> TRUE,
          error_code |-> r.code, status_code |-> r.status_code,
          traceback |-> Some(FormatException(e))]
    ELSE IF r.status_code >= ServerErrorFloor
    THEN [level |-> ERROR, text |-> "Server error", exc_info |-> FALSE,
          error_code |-> r.code, status_code |-> r.status_code,
          traceback |-> None]
    ELSE [level |-> WARNING, text |-> "Client error", exc_info |-> FALSE,
          error_code |-> r.code, status_code |-> r.status_code,
          traceback |-> None]

----------------------------------------------------------------------------
(* Correlation id resolution *)

\* request-id values as stored by callers: a str or an int
StrVal(x) == [tag |-> "str", s |-> x, n |-> 0]
IntVal(x) == [tag |-> "int", s |-> "", n |-> x]

Digit(d) == CASE d = 0 -> "0" [] d = 1 -> "1" [] d = 2 -> "2" [] d = 3 -> "3"
              [] d = 4 -> "4" [] d = 5 -> "5" [] d = 6 -> "6" [] d = 7 -> "7"
              [] d = 8 -> "8" [] d = 9 -> "9"

RECURSIVE IntToStr(_)
IntToStr(x) == IF x < 10 THEN Digit(x) ELSE IntToStr(x \div 10) \o Digit(x % 10)

\* str(req_id)
PyStr(v) == IF v.tag = "str" THEN v.s ELSE IntToStr(v.n)

\* A request object:
\*   state    optional `state` attribute; a state object has an optional request_id
\*   kind     "object"  neither a dict nor a mapping
\*            "dict"    a dict (or subclass) instance
\*            "mapping" a MutableMapping that is not a dict (aiohttp.web.Request)
\*   entry    optional value stored under the key "request_id" (dict and mapping)
Request(state, kind, entry) == [state |-> state, kind |-> kind, entry |-> entry]
State(rid) == [request_id |-> rid]

\* get_correlation_ids(): the ambient correlation context of the running request
get_correlation_ids(amb) == [request_id |-> amb]

\* _resolve_request_id(request), with the ambient context passed explicitly
resolve_request_id(req, amb) ==
    IF ~IsNone(req.state) /\ ~IsNone(Get(req.state).request_id)
    THEN PyStr(Get(Get(req.state).request_id))
    ELSE IF req.kind = "dict" /\ ~IsNone(req.entry)
    THEN PyStr(Get(req.entry))
    ELSE IF ~IsNone(get_correlation_ids(amb).request_id)
    THEN Get(get_correlation_ids(amb).request_id)
    ELSE "unknown"

----------------------------------------------------------------------------
(* JSON values, json.dumps(...).encode() and json.loads *)

JStr(x) == [t |-> "str", s |-> x, n |-> 0, m |-> <<>>]
JNum(x) == [t |-> "num", s |-> "", n |-> x, m |-> <<>>]
JObj(members) == [t |-> "obj", s |-> "", n |-> 0, m |-> members]

\* a dict[str, int] as a JSON object
RECURSIVE DictMembers(_)
DictMembers(d) ==
    IF d = <<>> THEN <<>>
    ELSE << <<d[1][1], JNum(d[1][2])>> >> \o DictMembers(Tail(d))

\* Tokens of the encoded text: punctuation, a quoted string, a number literal.
Punct(c) == [k |-> "punct", s |-> c]
StrTok(x) == [k |-> "string", s |-> x]
NumTok(x) == [k |-> "number", s |-> IntToStr(x)]

RECURSIVE Dumps(_)
RECURSIVE DumpMembers(_)
DumpMembers(ms) ==
    IF ms = <<>> THEN <<>>
    ELSE <<StrTok(ms[1][1]), Punct(":")>> \o Dumps(ms[1][2])
         \o (IF Len(ms) > 1 THEN <<Punct(",")>> ELSE <<>>)
         \o DumpMembers(Tail(ms))

\* json.dumps(value).encode()
Dumps(v) ==
    CASE v.t = "str" -> <<StrTok(v.s)>>
      [] v.t = "num" -> <<NumTok(v.n)>>
      [] v.t = "obj" -> <<Punct("{")>> \o DumpMembers(v.m) \o <<Punct("}")>>

DigitValue(c) == CHOOSE d \in 0..9 : Digit(d) = c

\* int(literal) for the literals IntToStr produces (at most two digits here)
ParseInt(lit) ==
    IF \E d \in 0..9 : Digit(d) = lit
    THEN DigitValue(lit)
    ELSE CHOOSE x \in 10..99 : IntToStr(x) = lit

\* Recursive-descent parser: ParseValue(toks, i) reads one value starting at
\* token i and returns it with the index of the token after it.
RECURSIVE ParseValue(_, _)
RECURSIVE ParseMembers(_, _, _)
ParseMembers(toks, i, acc) ==
    IF toks[i] = Punct("}") THEN [value |-> JObj(acc), next |-> i + 1]
    ELSE IF toks[i] = Punct(",") THEN ParseMembers(toks, i + 1, acc)
    ELSE LET key == toks[i].s
             val == ParseValue(toks, i + 2)
         IN  ParseMembers(toks, val.next, Append(acc, <<key, val.value>>))

ParseValue(toks, i) ==
    CASE toks[i].k = "string" -> [value |-> JStr(toks[i].s), next |-> i + 1]
      [] toks[i].k = "number" -> [value |-> JNum(ParseInt(toks[i].s)), next |-> i + 1]
      [] toks[i] = Punct("{") -> ParseMembers(toks, i + 1, <<>>)

\* json.loads(body)
Loads(toks) == ParseValue(toks, 1).value

----------------------------------------------------------------------------
(* Rendering *)

\* _build_error_body(request_id, code, message, details)
build_error_body(rid, code, message, details) ==
    JObj(<< <<"error",
              JObj(<< <<"code", JStr(code)>>,
                      <<"message", JStr(message)>>,
                      <<"details", JObj(DictMembers(details))>>,
                      <<"request_id", JStr(rid)>> >>)>> >>)

\* Mutant: the fallback object sets status_code only.
MinimalJSONResponseNoStatus(content, status_code) ==
    [impl |-> "minimal", status_code |-> Some(status_code),
     status |-> None, body |-> Dumps(content)]

\* A response object: the attributes a caller can read from it.
\* _MinimalJSONResponse(content=..., status_code=...)
MinimalJSONResponse(content, status_code) ==
    [impl |-> "minimal", status_code |-> Some(status_code),
     status |-> Some(status_code), body |-> Dumps(content)]

\* _fastapi_json_response(content=..., status_code=...)
fastapi_json_response(content, status_code, installed) ==
    IF ~installed THEN MinimalJSONResponse(content, status_code)
    ELSE [impl |-> "starlette", status_code |-> Some(status_code),
          status |-> None, body |-> Dumps(content)]

\* _aiohttp_json_response(content=..., status_code=...)
aiohttp_json_response(content, status_code, installed) ==
    IF ~installed THEN MinimalJSONResponse(content, status_code)
    ELSE [impl |-> "aiohttp", status_code |-> None,
          status |-> Some(status_code), body |-> Dumps(content)]

----------------------------------------------------------------------------
(* The middleware coroutine *)

NoOutcome == [kind |-> "none", response |-> None, error |-> ""]
PassThrough == [kind |-> "passthrough", response |-> None, error |-> ""]
Responded(resp) == [kind |-> "response", response |-> Some(resp), error |-> ""]
Propagated(t) == [kind |-> "raised", response |-> None, error |-> t]

\* The adapter's JSON response constructor
json_response(adp, content, status_code, starlette, aiohttp) ==
    IF adp = "fastapi" THEN fastapi_json_response(content, status_code, starlette)
    ELSE aiohttp_json_response(content, status_code, aiohttp)

\* Mutant: `except BaseException as exc:`
CaughtBaseException(e) == IsInstance(e, "BaseException")

\* `except Exception as exc:` catches instances of Exception only
Caught(e) == IsInstance(e, "Exception")

\* The body of middleware() from the point where the awaited downstream handler
\* raises e: the except clause and, when it is entered, dispatch, log, resolve,
\* build and render, none of which suspends.  sink_ok tells whether the logging
\* sink accepts the record; a sink that raises makes the logger call raise.
Middleware(e, hs, msg, adp, req, amb, sink_ok, starlette, aiohttp) ==
    IF ~Caught(e)
    THEN [record |-> None, invoked |-> <<>>, logs |-> <<>>, request_id |-> None,
          outcome |-> Propagated(e.type)]
    ELSE
    LET d == dispatch_exception(e, hs, msg) IN
    IF d.call.raised
    THEN [record |-> None, invoked |-> d.invoked, logs |-> <<>>, request_id |-> None,
          outcome |-> Propagated(d.call.error)]
    ELSE
    LET r == Get(d.call.value) IN
    IF ~sink_ok
    THEN [record |-> Some(r), invoked |-> d.invoked, logs |-> <<>>, request_id |-> None,
          outcome |-> Propagated("LogSinkError")]
    ELSE
    LET rid  == resolve_request_id(req, amb)
        body == build_error_body(rid, r.code, r.message, r.details)
    IN  [record |-> Some(r), invoked |-> d.invoked, logs |-> <<log_error(r, e)>>,
         request_id |-> Some(rid),
         outcome |-> Responded(json_response(adp, body, r.status_code, starlette, aiohttp))]

----------------------------------------------------------------------------
(* Actions *)

\* The host framework calls middleware(request, call_next); it runs to the await.
Start(r, adapters, requests, ambients) ==
    /\ phase[r] = "idle"
    /\ \E a \in adapters, q \in requests, c \in ambients :
          /\ adapter' = [adapter EXCEPT ![r] = a]
          /\ request' = [request EXCEPT ![r] = q]
          /\ ambient' = [ambient EXCEPT ![r] = c]
    /\ phase' = [phase EXCEPT ![r] = "awaiting"]
    /\ UNCHANGED <<config, exc, record, invoked, logs, request_id, outcome>>

\* The downstream handler returns a response: the middleware returns it unchanged.
HandlerReturns(r) ==
    /\ phase[r] = "awaiting"
    /\ phase' = [phase EXCEPT ![r] = "done"]
    /\ outcome' = [outcome EXCEPT ![r] = PassThrough]
    /\ UNCHANGED <<config, adapter, request, ambient, exc, record, invoked, logs,
                   request_id>>

\* The await raises e in the middleware.
Raise(r, e, sink_ok) ==
    LET m == Middleware(e, handlers, catch_all_message, adapter[r], request[r],
                        ambient[r], sink_ok, starlette_installed, aiohttp_installed)
    IN  /\ phase[r] = "awaiting"
        /\ phase' = [phase EXCEPT ![r] = "done"]
        /\ exc' = [exc EXCEPT ![r] = Some(e)]
        /\ record' = [record EXCEPT ![r] = m.record]
        /\ invoked' = [invoked EXCEPT ![r] = m.invoked]
        /\ logs' = [logs EXCEPT ![r] = m.logs]
        /\ request_id' = [request_id EXCEPT ![r] = m.request_id]
        /\ outcome' = [outcome EXCEPT ![r] = m.outcome]
        /\ UNCHANGED <<config, adapter, request, ambient>>

\* The downstream handler raises an exception.
HandlerRaises(r, excs, sinks) ==
    \E e \in excs, sink_ok \in sinks : Raise(r, e, sink_ok)

\* The task running the request is cancelled while suspended in the await:
\* asyncio.CancelledError (a BaseException) is raised at the await.
HandlerCancelled(r) ==
    \E sink_ok \in BOOLEAN : Raise(r, PlainException("CancelledError", ""), sink_ok)

----------------------------------------------------------------------------
(* Inputs *)

SeqsUpTo(S, n) == UNION {[1..k -> S] : k \in 0..n}

SecretText == "connection refused: db password hunter2"

PlainTypes == {"KeyError", "LookupError", "ValueError", "RuntimeError"}
PlainExceptions == {PlainException(t, SecretText) : t \in PlainTypes}

APIErrors ==
    {APIErrorInit(t, "NOT_FOUND", "Widget 42 missing", sc, d) :
        t \in {"APIError", "WidgetNotFound"},
        sc \in {None, Some(404), Some(499), Some(500), Some(503)},
        d \in {None, Some(EmptyDict), Some(WidgetDetails)}}

AllExceptions == PlainExceptions \cup APIErrors

CoreExceptions ==
    {PlainException("KeyError", SecretText),
     PlainException("ValueError", SecretText),
     PlainException("RuntimeError", SecretText),
     APIErrorInit("APIError", "NOT_FOUND", "Widget 42 missing", Some(404),
                  Some(WidgetDetails)),
     APIErrorInit("APIError", "UPSTREAM", "Upstream failed", Some(503), None)}

RenderExceptions ==
    {PlainException("RuntimeError", SecretText),
     APIErrorInit("APIError", "NOT_FOUND", "Widget 42 missing", Some(404),
                  Some(WidgetDetails))}

\* (exception type, mapper) pairs a deployment may register
AllPairs ==
    {<<"LookupError", "not_found">>, <<"KeyError", "validation">>,
     <<"ValueError", "unavailable">>, <<"KeyError", "broken">>,
     <<"Exception", "bare">>, <<"APIError", "validation">>,
     <<"OrchidCommonsError", "unavailable">>}

CorePairs == {<<"KeyError", "not_found">>, <<"ValueError", "broken">>}

Adapters == {"fastapi", "aiohttp"}

StateValues == {StrVal(""), StrVal("abc"), IntVal(0)}
EntryValues == {StrVal(""), StrVal("from-mapping"), IntVal(17)}
AmbientValues == {None, Some(""), Some("xyz")}

AllRequests ==
    {Request(st, "object", None) :
        st \in {None, Some(State(None))} \cup {Some(State(Some(v))) : v \in StateValues}}
    \cup
    {Request(st, k, en) :
        st \in {None, Some(State(None))} \cup {Some(State(Some(v))) : v \in StateValues},
        k \in {"dict", "mapping"},
        en \in {None} \cup {Some(v) : v \in EntryValues}}

PlainRequest == Request(Some(State(Some(StrVal("abc")))), "object", None)

----------------------------------------------------------------------------
(* Specifications *)

InitRequests ==
    /\ phase = [r \in Requests |-> "idle"]
    /\ adapter = [r \in Requests |-> "fastapi"]
    /\ request = [r \in Requests |-> PlainRequest]
    /\ ambient = [r \in Requests |-> None]
    /\ exc = [r \in Requests |-> None]
    /\ record = [r \in Requests |-> None]
    /\ invoked = [r \in Requests |-> <<>>]
    /\ logs = [r \in Requests |-> <<>>]
    /\ request_id = [r \in Requests |-> None]
    /\ outcome = [r \in Requests |-> NoOutcome]

\* Concurrent requests through one middleware; the logging sink may fail.
Init ==
    /\ handlers \in SeqsUpTo(CorePairs, MaxHandlers)
    /\ catch_all_message = DefaultCatchAllMessage
    /\ starlette_installed = TRUE
    /\ aiohttp_installed = FALSE
    /\ InitRequests

Next ==
    \E r \in Requests :
        \/ Start(r, Adapters, {PlainRequest}, {Some("xyz")})
        \/ HandlerReturns(r)
        \/ HandlerRaises(r, CoreExceptions, BOOLEAN)
        \/ HandlerCancelled(r)

Spec == Init /\ [][Next]_vars

\* One request; every handler list and exception; the logging sink works.
InitDispatch ==
    /\ handlers \in SeqsUpTo(AllPairs, MaxHandlers)
    /\ catch_all_message \in {DefaultCatchAllMessage, "Something went wrong"}
    /\ starlette_installed \in BOOLEAN
    /\ aiohttp_installed \in BOOLEAN
    /\ InitRequests

NextDispatch ==
    \/ Start(1, Adapters, {PlainRequest}, {None})
    \/ HandlerReturns(1)
    \/ HandlerRaises(1, AllExceptions, {TRUE})

SpecDispatch == InitDispatch /\ [][NextDispatch]_vars

\* One request; every request shape, ambient context and framework availability.
InitRender ==
    /\ handlers = <<>>
    /\ catch_all_message = DefaultCatchAllMessage
    /\ starlette_installed \in BOOLEAN
    /\ aiohttp_installed \in BOOLEAN
    /\ InitRequests

NextRender ==
    \/ Start(1, Adapters, AllRequests, AmbientValues)
    \/ HandlerReturns(1)
    \/ HandlerRaises(1, RenderExceptions, {TRUE})

SpecRender == InitRender /\ [][NextRender]_vars

----------------------------------------------------------------------------
(* Vocabulary of the properties *)

\* The middleware of request r has run its except path for exception Get(exc[r]).
Finished(r) == phase[r] = "done" /\ ~IsNone(exc[r])

\* Indexes of the registered pairs whose type the exception is an instance of
Matching(e) == {i \in 1..Len(handlers) : IsSubclass(e.type, handlers[i][1])}
FirstMatching(e) == CHOOSE i \in Matching(e) : \A j \in Matching(e) : i <= j

\* The member of a decoded JSON object stored under key
Field(obj, key) == obj.m[CHOOSE i \in 1..Len(obj.m) : obj.m[i][1] = key][2]
Keys(obj) == [i \in 1..Len(obj.m) |-> obj.m[i][1]]

\* The status a client of either framework reads from a response
StatusOf(resp) == IF ~IsNone(resp.status_code) THEN Get(resp.status_code)
                  ELSE Get(resp.status)

\* The decoded body is the envelope {error: {code, message, details, request_id}}
\* with the given entries.
IsEnvelope(body, code, message, details, rid) ==
    /\ body.t = "obj" /\ Keys(body) = <<"error">>
    /\ LET err == Field(body, "error") IN
          /\ err.t = "obj"
          /\ {Keys(err)[i] : i \in 1..Len(err.m)}
                = {"code", "message", "details", "request_id"}
          /\ Len(err.m) = 4
          /\ Field(err, "code") = JStr(code)
          /\ Field(err, "message") = JStr(message)
          /\ Field(err, "details").t = "obj"
          /\ Field(err, "details").m
                = [i \in 1..Len(details) |-> <<details[i][1], JNum(details[i][2])>>]
          /\ Field(err, "request_id") = JStr(rid)

\* The modelled mappers that build their ErrorResponse without a log_level
MappersLeavingLogLevelUnset == {"not_found", "unavailable", "bare"}

----------------------------------------------------------------------------
(* Properties *)

\* C1: an exception that is neither an APIError nor an instance of a registered
\* handler type is answered with status 500 and the body INTERNAL_ERROR / the
\* configured fallback message / empty details, its record has log level
\* CRITICAL, and neither str(exc) nor the exception's class name occurs in the body.
C1_CatchAllResponse ==
    \A r \in Requests :
        (Finished(r) /\ Caught(Get(exc[r])) /\ ~IsInstance(Get(exc[r]), "APIError")
            /\ Matching(Get(exc[r])) = {})
        => /\ ~IsNone(record[r])
           /\ Get(record[r]).log_level = CRITICAL
           /\ outcome[r].kind = "response"
           /\ LET resp == Get(outcome[r].response) IN
                 /\ StatusOf(resp) = 500
                 /\ IsEnvelope(Loads(resp.body), "INTERNAL_ERROR", catch_all_message,
                               <<>>, Get(request_id[r]))
                 /\ \A i \in 1..Len(resp.body) :
                        resp.body[i].s \notin {ExcStr(Get(exc[r])), Get(exc[r]).args,
                                                Get(exc[r]).type}

C1_Witness ==
    \E r \in Requests :
        /\ Finished(r) /\ Get(exc[r]).type = "RuntimeError"
        /\ handlers # <<>> /\ Matching(Get(exc[r])) = {}
        /\ catch_all_message = DefaultCatchAllMessage
        /\ outcome[r].kind = "response"

\* C2: an APIError (or subclass instance) is answered with its own status code,
\* code, message and details whatever handlers are registered, and its record
\* has log level WARNING below 500 and ERROR from 500 on, never CRITICAL.
C2_APIErrorVerbatim ==
    \A r \in Requests :
        (Finished(r) /\ IsInstance(Get(exc[r]), "APIError"))
        => LET e == Get(exc[r]) IN
           /\ invoked[r] = <<>>
           /\ ~IsNone(record[r])
           /\ Get(record[r]).log_level = (IF e.status_code < 500 THEN WARNING ELSE ERROR)
           /\ Get(record[r]).log_level # CRITICAL
           /\ outcome[r].kind = "response"
           /\ StatusOf(Get(outcome[r].response)) = e.status_code
           /\ IsEnvelope(Loads(Get(outcome[r].response).body), e.code, e.message,
                         e.details, Get(request_id[r]))

C2_Witness ==
    \E r \in Requests :
        /\ Finished(r) /\ Get(exc[r]).type = "WidgetNotFound"
        /\ Get(exc[r]).status_code = 503 /\ Get(exc[r]).details = WidgetDetails
        /\ Matching(Get(exc[r])) # {}
        /\ outcome[r].kind = "response"

\* C3: for a non-APIError exception with at least one matching pair, only the
\* first matching pair's mapper is called and its result is the dispatcher's
\* result; dropping every non-matching pair from the list gives the same result.
C3_FirstMatchWins ==
    \A r \in Requests :
        (Finished(r) /\ Caught(Get(exc[r])) /\ ~IsInstance(Get(exc[r]), "APIError")
            /\ Matching(Get(exc[r])) # {})
        => LET e == Get(exc[r])
               i0 == FirstMatching(e)
               call == Mapper(handlers[i0][2], e)
               kept == SelectSeq(handlers, LAMBDA h : IsSubclass(e.type, h[1]))
           IN  /\ invoked[r] = <<i0>>
               /\ record[r] = call.value
               /\ call.raised => outcome[r] = Propagated(call.error)
               /\ record[r] = dispatch_exception(e, kept, catch_all_message).call.value
               /\ \A h \in AllPairs :
                     ~IsSubclass(e.type, h[1]) =>
                        record[r] = dispatch_exception(e, <<h>> \o handlers,
                                                       catch_all_message).call.value

C3_Witness ==
    \E r \in Requests :
        /\ Finished(r) /\ Get(exc[r]).type = "KeyError"
        /\ Len(handlers) = 2
        /\ Matching(Get(exc[r])) = {1, 2}
        /\ handlers[1][1] = "LookupError" /\ handlers[2][1] = "KeyError"
        /\ ~IsNone(record[r]) /\ Get(record[r]).code = "NOT_FOUND"

\* C4 (as claimed): classification always yields a record, and a mapper that
\* raises yields the catch-all record instead of an escaping exception.
C4_DispatcherNeverRaises ==
    \A r \in Requests :
        (Finished(r) /\ Caught(Get(exc[r])))
        => /\ ~IsNone(record[r])
           /\ (invoked[r] # <<>> /\ Mapper(handlers[invoked[r][1]][2], Get(exc[r])).raised)
                => /\ Get(record[r]).code = "INTERNAL_ERROR"
                   /\ Get(record[r]).status_code = 500
                   /\ Get(record[r]).log_level = CRITICAL

\* C5 (as claimed): every non-cancellation exception escaping the downstream
\* handler ends in a rendered response; nothing propagates to the framework.
C5_AlwaysResponds ==
    \A r \in Requests :
        (Finished(r) /\ Get(exc[r]).type # "CancelledError")
        => /\ outcome[r].kind = "response"
           /\ ~IsNone(outcome[r].response)

\* C6 (as claimed): the correlation id is the first present value among the
\* state slot, the request_id entry of a mapping-like request and the ambient
\* context, and "unknown" when none is present.
C6_ResolutionOrder ==
    \A r \in Requests :
        ~IsNone(request_id[r])
        => LET q == request[r] IN
           Get(request_id[r]) =
             (IF ~IsNone(q.state) /\ ~IsNone(Get(q.state).request_id)
                 THEN PyStr(Get(Get(q.state).request_id))
              ELSE IF q.kind \in {"dict", "mapping"} /\ ~IsNone(q.entry)
                 THEN PyStr(Get(q.entry))
              ELSE IF ~IsNone(ambient[r]) THEN Get(ambient[r])
              ELSE "unknown")

\* C7: a cancellation raised at the await leaves the middleware unchanged: it
\* is not classified, not logged, no correlation id is resolved and no response
\* is rendered, whatever the other requests are doing.
C7_CancellationPropagates ==
    \A r \in Requests :
        (Finished(r) /\ Get(exc[r]).type = "CancelledError")
        => /\ outcome[r] = Propagated("CancelledError")
           /\ IsNone(record[r])
           /\ invoked[r] = <<>>
           /\ logs[r] = <<>>
           /\ IsNone(request_id[r])

C7_Witness ==
    \E r, o \in Requests :
        /\ r # o
        /\ Finished(r) /\ Get(exc[r]).type = "CancelledError"
        /\ outcome[r].kind = "raised"
        /\ Finished(o) /\ outcome[o].kind = "response" /\ Len(logs[o]) = 1

\* C8: when the adapter's framework is not installed, the response is the
\* minimal object: status and status_code both equal the record's status code
\* and the body decodes to the envelope built from the record and the resolved id.
C8_MinimalResponse ==
    \A r \in Requests :
        (Finished(r) /\ outcome[r].kind = "response"
            /\ ((adapter[r] = "fastapi" /\ ~starlette_installed)
                \/ (adapter[r] = "aiohttp" /\ ~aiohttp_installed)))
        => LET resp == Get(outcome[r].response)
               rec == Get(record[r])
           IN  /\ resp.impl = "minimal"
               /\ resp.status = Some(rec.status_code)
               /\ resp.status_code = Some(rec.status_code)
               /\ IsEnvelope(Loads(resp.body), rec.code, rec.message, rec.details,
                             Get(request_id[r]))

C8_Witness ==
    \E r \in Requests :
        /\ Finished(r) /\ outcome[r].kind = "response"
        /\ adapter[r] = "aiohttp" /\ ~aiohttp_installed /\ starlette_installed
        /\ Get(outcome[r].response).impl = "minimal"
        /\ Get(record[r]).details = WidgetDetails
        /\ Get(request_id[r]) = "17"

\* C9 (as claimed): each classified record is logged exactly once before the
\* response, with error_code and status_code, at the level of its severity:
\* CRITICAL at the highest level with the stack trace, ERROR at error level,
\* WARN at warning level.
C9_LogLevelFollowsSeverity ==
    \A r \in Requests :
        (Finished(r) /\ outcome[r].kind = "response")
        => LET rec == Get(record[r]) IN
           /\ Len(logs[r]) = 1
           /\ logs[r][1].error_code = rec.code
           /\ logs[r][1].status_code = rec.status_code
           /\ logs[r][1].level = rec.log_level
           /\ rec.log_level = CRITICAL => ~IsNone(logs[r][1].traceback)

\* C10 (as claimed): the dispatcher returns the matched mapper's record
\* unmodified, and a record whose mapper set no log level has level ERROR.
C10_DefaultSeverityError ==
    \A r \in Requests :
        (Finished(r) /\ invoked[r] # <<>> /\ ~IsNone(record[r]))
        => LET name == handlers[invoked[r][1]][2] IN
           /\ record[r] = Mapper(name, Get(exc[r])).value
           /\ name \in MappersLeavingLogLevelUnset => Get(record[r]).log_level = ERROR

\* C10 (amended): the dispatcher returns the matched mapper's record with code,
\* message, status code, details and log level unmodified, and a record whose
\* mapper set no log level has level WARNING.
C10_MapperRecordKept ==
    \A r \in Requests :
        (Finished(r) /\ invoked[r] # <<>> /\ ~IsNone(record[r]))
        => LET name == handlers[invoked[r][1]][2]
               rec == Get(record[r])
           IN  /\ record[r] = Mapper(name, Get(exc[r])).value
               /\ name = "validation" =>
                     rec = [code |-> "VALIDATION_ERROR", message |-> "Invalid input",
                            status_code |-> 422, details |-> FieldDetails,
                            log_level |-> ERROR]
               /\ name = "unavailable" => rec.status_code = 503
               /\ name = "not_found" => rec.message = ExcStr(Get(exc[r]))
               /\ name \in MappersLeavingLogLevelUnset => rec.log_level = WARNING

C10_Witness ==
    \E r \in Requests :
        /\ Finished(r) /\ invoked[r] = <<2>>
        /\ handlers[2][2] = "unavailable"
        /\ ~IsNone(record[r]) /\ Get(record[r]).status_code = 503
        /\ Get(record[r]).log_level = WARNING

====
